---- MODULE Spec2Model ----
(***************************************************************************)
(* Network provider and transaction-confirmation engine of blueprint:      *)
(* NetworkProviderImpl.waitForDeploy, verifyTransactionStatus,             *)
(* verifyTransactionByHash, waitForLastTransaction, isTransactionApplied   *)
(* the SendProviderSender they read, WrappedContractProvider.internal, the  *)
(* rate-limit adapter httpAdapter and NetworkProviderBuilder.build         *)
(* (network/createNetworkProvider).                                        *)
(* One behaviour is one provider: sends through its sender, then one call  *)
(* of waitForDeploy or waitForLastTransaction, one await per step.         *)
(***************************************************************************)
EXTENDS Integers, Sequences, FiniteSets, TLC

\* ---------------------------------------------------------------- bounds
MaxAttempts == 3      \* largest `attempts` argument tried
MaxExitCode == 2      \* exit codes 0..MaxExitCode appear in transactions
MaxHist == 2          \* longest transaction history a backend returns
MaxMsg == 2           \* distinct message contents (destination and body)
MaxLt == 1            \* logical times 1..MaxLt
MaxPeers == 2         \* longest liteservers list of a light-client configuration
MaxDeployAttempts == 1  \* waitAttempts passed to deploy range over -1..MaxDeployAttempts

\* ------------------------------------------------------ program constants
MAX_TONAPI_ATTEMPTS == 5

INITIAL_DELAY == 400

MAX_ATTEMPTS == 4

\* ------------------------------------------------------------- data model
Undefined == "undefined"

TcKinds == {"v2", "v4", "indexer", "liteclient"}

Networks == {"mainnet", "testnet", "custom"}

AccountStates == {"uninit", "active", "frozen"}

\* TransactionType as verifyTransactionStatus reads it: compute.exit_code
\* (a set of at most one number: {} when undefined), status, success and
\* the hash, which is absent, a string, or a callable that may throw.
HashShapes == {"absent", "string", "callable", "callable_throws"}

TransactionTypes ==
    [exit_code : {{}} \cup {{c} : c \in 0..MaxExitCode},
     status : {Undefined, "failed", "active"},
     success : {Undefined, "true", "false"},
     hash : HashShapes]

NoTx == [exit_code |-> {}, status |-> Undefined, success |-> Undefined, hash |-> "absent"]

\* The TonAPI answer verifyTransactionByHash reads: "throws" when axios.get
\* raises, "empty" when response.data is falsy, else the fields it inspects.
IndexerResponses ==
    [kind : {"throws", "empty"}, exit_code : {{}}, compute_success : {Undefined}, success : {Undefined}]
    \cup [kind : {"data"},
          exit_code : {{}} \cup {{c} : c \in 0..MaxExitCode},
          compute_success : {Undefined, "true", "false"},
          success : {Undefined, "true", "false"}]

\* tx.status of an answer that carries data: verifyTransactionByHash copies
\* it into the error text and does not inspect it
IndexerStatuses == {Undefined, "failed"}

\* no answer of the indexer has been read
NoIndexerResponse ==
    [answer |-> [kind |-> "none", exit_code |-> {}, compute_success |-> Undefined,
                 success |-> Undefined],
     status |-> Undefined]

\* An external or internal message: `content` is what the normalized hash
\* keeps (destination and body), `raw` what it drops (src, importFee, init).
Messages == [content : 1..MaxMsg, raw : 0..1]

\* A Transaction of @ton/core as isTransactionApplied reads it: the type of
\* inMessage.info ("none" when there is no inMessage), the message, and lt.
Transactions ==
    [inType : {"external-in"}, msg : Messages, lt : 1..MaxLt]
    \cup [inType : {"internal"}, msg : [content : 1..MaxMsg, raw : {0}], lt : 1..MaxLt]
    \cup [inType : {"none"}, msg : {[content |-> 1, raw |-> 0]}, lt : 1..MaxLt]

Histories == UNION {[1..n -> Transactions] : n \in 0..MaxHist}

\* values of lastSendResult: only shape "boc" carries a string boc field
SendResults ==
    [shape : {"undefined", "no_boc", "boc_not_string"}, msg : {[content |-> 1, raw |-> 0]}]
    \cup [shape : {"boc"}, msg : [content : 1..MaxMsg, raw : {0}]]

NoSendResult == [shape |-> "undefined", msg |-> [content |-> 1, raw |-> 0]]

\* SendMode values a caller may pass: undefined, PAY_GAS_SEPARATELY, another
SendModes == {"undefined", "PAY_GAS_SEPARATELY", "CARRY_ALL_REMAINING_BALANCE"}

\* ----------------------------------------------------------- pure helpers
\* faulty variant: zero attempts pass the guard
AttemptsInvalid_Strict(n) == n < 0

\* waitForDeploy / waitForLastTransaction: if (attempts <= 0) throw
AttemptsInvalid(n) == n <= 0

\* faulty variant: the loop stops one iteration early
LoopContinues_Short(k, n) == k < n

\* for (let i = 1; i <= attempts; i++)
LoopContinues(k, n) == k <= n

\* faulty variant: the comparison is inverted
isContractDeployed_Negated(stateType) == stateType # "active"

\* faulty variant: only an uninitialized account counts as not deployed
isContractDeployed_Frozen(stateType) == stateType # "uninit"

\* getState().state.type === 'active'
isContractDeployed(stateType) == stateType = "active"

\* txHash = tx.hash || tx.transaction_id?.hash, a callable invoked in try/catch
TxHashDefined(tx) == tx.hash \in {"string", "callable"}

\* the condition that makes verifyTransactionStatus return success: false
ClassifyFailed(tx) ==
    \/ tx.status = "failed"
    \/ \E c \in tx.exit_code : c # 0 /\ c # 1

\* errorMsg of verifyTransactionStatus, one <<label, value>> per line
FailureText(tx) ==
    <<  <<"Transaction failed.", "">>,
        <<"Exit code", IF tx.exit_code = {} THEN "unknown"
                       ELSE ToString(CHOOSE c \in tx.exit_code : TRUE)>> >>
    \o (IF tx.status # Undefined THEN << <<"Status", tx.status>> >> ELSE <<>>)
    \o (IF TxHashDefined(tx) THEN << <<"Tx hash", "hash">> >> ELSE <<>>)
    \o (IF TxHashDefined(tx) THEN << <<"Explorer", "link">> >> ELSE <<>>)

\* verifyTransactionStatus after the fetch loop, on the fetched list txs
ClassifyTxs(fetched) ==
    IF Len(fetched) > 0
    THEN IF ClassifyFailed(fetched[1])
         THEN [known |-> TRUE, success |-> FALSE, error |-> FailureText(fetched[1]), hasTx |-> TRUE]
         ELSE [known |-> TRUE, success |-> TRUE, error |-> <<>>, hasTx |-> TRUE]
    ELSE [known |-> TRUE, success |-> TRUE, error |-> <<>>, hasTx |-> FALSE]

\* client instanceof ContractAdapter || TonClient || TonClient4
ClientFetchesTransactions(kind) == kind \in {"v2", "v4", "indexer"}

\* verifyTransactionByHash: isFailedCompute || isFailedOverall
ByHashFailed(r) ==
    \/ \E c \in r.exit_code : c # 0 /\ c # 1
    \/ r.compute_success = "false"
    \/ ~(r.success = "true")

\* verifyTransactionByHash on an answer of the indexer
verifyTransactionByHash(r) ==
    CASE r.kind = "throws" -> [success |-> FALSE, hasTx |-> FALSE]
      [] r.kind = "empty" -> [success |-> FALSE, hasTx |-> FALSE]
      [] OTHER -> [success |-> ~ByHashFailed(r), hasTx |-> TRUE]

\* ------------------------------------------------------------------ state
VARIABLES
    pc,          \* position of the one task: idle, a wait's step, or done
    op,          \* the wait that was called
    tcKind,      \* class of this.#tc
    network,     \* this.#network
    attempts,    \* the attempts argument
    i,           \* loop variable of the polling loop
    vAttempts,   \* `attempts` of verifyTransactionStatus
    chainTx,     \* most recent transaction of the address when verification ends
    txs,         \* the list verifyTransactionStatus fetched
    txStatus,    \* what verifyTransactionStatus returned
    specificTxStatus, \* what verifyTransactionByHash returned
    prompt,      \* the UI action prompt ("" when cleared)
    writes,      \* ui.write calls, in order
    cnt,         \* polls, verifications, cross-checks, prompts and sleeps so far
    obs,         \* what the backend did: first active poll, a raising poll
    outcome,     \* how the call ended
    senderAddress,  \* SendProviderSender.address: "none" when undefined
    lastSendResult, \* SendProviderSender.#lastSendResult
    inMessageHash,      \* inMessageHash of waitForLastTransaction
    lastTxs,     \* the history the last poll fetched
    result,      \* what the last isTransactionApplied returned
    httpAdapter, \* does the client carry the retrying httpAdapter
    build,       \* NetworkProviderBuilder.build: connected, returned, exit code
    http,        \* locals of the transport call in flight: delay, attempts, r
    internal,    \* locals of WrappedContractProvider.internal in flight
    cli          \* the command-line process: command, hooks run, exit code

vars == <<pc, op, tcKind, network, attempts, i, vAttempts, chainTx, txs, txStatus,
          specificTxStatus, prompt, writes, cnt, obs, outcome, senderAddress,
          lastSendResult, inMessageHash, lastTxs, result, httpAdapter, build,
          http, internal, cli>>

\* what build() fixes for the lifetime of the provider, and the process that
\* called it
cfgVars == <<tcKind, network, senderAddress, httpAdapter, build, cli>>

wfdVars == <<vAttempts, chainTx, txs, txStatus, specificTxStatus>>

wfltVars == <<inMessageHash, lastTxs, result>>

NoStatus == [known |-> FALSE, success |-> TRUE, error |-> <<>>, hasTx |-> FALSE]

NoCross == [known |-> FALSE, success |-> TRUE, hasTx |-> FALSE]

NotApplied == [isApplied |-> FALSE, transaction |-> [inType |-> "none", msg |-> [content |-> 1, raw |-> 0], lt |-> 1]]

NoOutcome == [kind |-> "none", msg |-> "", detail |-> <<>>]

Threw(msg, detail) == [kind |-> "threw", msg |-> msg, detail |-> detail]

Returned == [kind |-> "returned", msg |-> "", detail |-> <<>>]

\* build() returned a provider: connect() resolved and the process runs on
Built == [connected |-> TRUE, failed |-> FALSE, provider |-> TRUE, exitCode |-> -1]

\* build() has not run yet
NotBuilt == [connected |-> FALSE, failed |-> FALSE, provider |-> FALSE, exitCode |-> -1]

\* no transport call in flight
NoHttp == [delay |-> 0, attempts |-> 0, requests |-> 0, slept |-> <<>>, r |-> "none"]

\* no internal() call in flight
NoInternal == [init |-> FALSE, reads |-> 0, stateType |-> "none", attached |-> FALSE,
               handed |-> FALSE]

\* what build() was given and did: the network flag and config, whether the
\* prompt was shown, the network chosen, whether a --custom-* flag was set,
\* whether the custom network has version v4 and a key, position of the first
\* malformed peer, clients, requests and peer engines made, sender chosen
NoBuildObs == [flag |-> "none", cfg |-> "none", prompted |-> FALSE, chosen |-> "none",
               customFlags |-> FALSE, v4key |-> FALSE, malformedAt |-> 0,
               clients |-> 0, requests |-> 0, engines |-> 0, senderChosen |-> FALSE,
               allowCustom |-> TRUE]

\* no transaction-history request has been sent
NoHistoryRequest == [client |-> "none", limit |-> 0, archival |-> FALSE]

NoObs == [activeAt |-> 0, pollRaised |-> FALSE, foundAt |-> 0, submitted |-> FALSE,
          unsupportedMode |-> FALSE, returned |-> NoSendResult, built |-> NoBuildObs,
          histReq |-> NoHistoryRequest, indexer |-> NoIndexerResponse,
          deployCase |-> "none", matched |-> "none"]

\* the process before main() is called: no command parsed, no stage of a
\* runner entered, no hook script looked up or executed, no interrupt
\* delivered, still running (exit code -1)
NoCli == [command |-> "none", viaAction |-> FALSE, site |-> "none", stage |-> 0,
          script |-> "none", interrupted |-> "none", pending |-> FALSE,
          preHook |-> "unread", postHook |-> "unread", invoked |-> FALSE,
          body |-> "none", executed |-> {}, warned |-> FALSE, exitCode |-> -1]

\* everything but the position of the task and the command-line process
providerVars == <<op, tcKind, network, attempts, i, vAttempts, chainTx, txs, txStatus,
                  specificTxStatus, prompt, writes, cnt, obs, outcome, senderAddress,
                  lastSendResult, inMessageHash, lastTxs, result, httpAdapter, build,
                  http, internal>>

Init ==
    /\ pc = "idle"
    /\ op = "none"
    /\ tcKind \in TcKinds
    /\ network \in Networks
    /\ attempts = 0
    /\ i = 0
    /\ vAttempts = 0
    /\ chainTx = NoTx
    /\ txs = <<>>
    /\ txStatus = NoStatus
    /\ specificTxStatus = NoCross
    /\ prompt = ""
    /\ writes = <<>>
    /\ cnt = [polls |-> 0, verifies |-> 0, cross |-> 0, txPolls |-> 0, prompts |-> 0,
              sleepsPoll |-> 0, sleepsSettle |-> 0]
    /\ obs = NoObs
    /\ outcome = NoOutcome
    /\ senderAddress \in {"none", "addr"}
    /\ lastSendResult = NoSendResult
    /\ inMessageHash = 0
    /\ lastTxs = <<>>
    /\ result = NotApplied
    /\ httpAdapter \in (IF tcKind = "v2" /\ network # "custom" THEN BOOLEAN ELSE {FALSE})
    /\ build = Built
    /\ http = NoHttp
    /\ internal = NoInternal
    /\ cli = NoCli

\* the state after the construction of NetworkProviderBuilder: no client, no
\* sender and no provider exist yet
InitBuild ==
    /\ pc = "build"
    /\ op = "none"
    /\ tcKind = "none"
    /\ network = "none"
    /\ attempts = 0
    /\ i = 0
    /\ vAttempts = 0
    /\ chainTx = NoTx
    /\ txs = <<>>
    /\ txStatus = NoStatus
    /\ specificTxStatus = NoCross
    /\ prompt = ""
    /\ writes = <<>>
    /\ cnt = [polls |-> 0, verifies |-> 0, cross |-> 0, txPolls |-> 0, prompts |-> 0,
              sleepsPoll |-> 0, sleepsSettle |-> 0]
    /\ obs = NoObs
    /\ outcome = NoOutcome
    /\ senderAddress = "none"
    /\ lastSendResult = NoSendResult
    /\ inMessageHash = 0
    /\ lastTxs = <<>>
    /\ result = NotApplied
    /\ httpAdapter = FALSE
    /\ build = NotBuilt
    /\ http = NoHttp
    /\ internal = NoInternal
    /\ cli = NoCli

\* no provider has been built when the process starts
NoProvider ==
    /\ op = "none"
    /\ tcKind = "none"
    /\ network = "none"
    /\ attempts = 0
    /\ i = 0
    /\ vAttempts = 0
    /\ chainTx = NoTx
    /\ txs = <<>>
    /\ txStatus = NoStatus
    /\ specificTxStatus = NoCross
    /\ prompt = ""
    /\ writes = <<>>
    /\ cnt = [polls |-> 0, verifies |-> 0, cross |-> 0, txPolls |-> 0, prompts |-> 0,
              sleepsPoll |-> 0, sleepsSettle |-> 0]
    /\ obs = NoObs
    /\ outcome = NoOutcome
    /\ senderAddress = "none"
    /\ lastSendResult = NoSendResult
    /\ inMessageHash = 0
    /\ lastTxs = <<>>
    /\ result = NotApplied
    /\ httpAdapter = FALSE
    /\ build = NotBuilt
    /\ http = NoHttp
    /\ internal = NoInternal

\* the process when main() is called: the SIGINT handler is registered
InitCli ==
    /\ pc = "main"
    /\ cli = NoCli
    /\ NoProvider

\* the process when the action runner is called
InitAction ==
    /\ pc = "action"
    /\ cli = [NoCli EXCEPT !.command = "action", !.viaAction = TRUE]
    /\ NoProvider

\* -------------------------------------------- NetworkProviderBuilder.build
\* oneOrZeroOf of --mainnet, --testnet, --custom
NetworkFlags == {"none", "mainnet", "testnet", "custom"}

\* config?.network: absent, a network name, or a CustomNetwork object
ConfigNetworks == {"none", "mainnet", "testnet", "object"}

\* version, type and key of a CustomNetwork, or of the --custom-* flags
CustomVersions == {"none", "v2", "v4", "tonapi", "liteclient", "other"}

CustomTypes == {"none", "mainnet", "testnet", "custom", "other"}

CustomNetworks == [version : CustomVersions, type : CustomTypes, key : BOOLEAN]

NoCustomNetwork == [version |-> "none", type |-> "none", key |-> FALSE]

\* faulty variant: the config is consulted before the flags
chooseNetwork_ConfigFirst(flag, cfg, answer) ==
    IF cfg # "none" THEN (IF cfg = "object" THEN "custom" ELSE cfg)
    ELSE IF flag # "none" THEN flag
    ELSE answer

\* chooseNetwork: a flag, else the config, else the answer to the prompt
chooseNetwork(flag, cfg, answer) ==
    IF flag # "none" THEN flag
    ELSE IF cfg # "none" THEN (IF cfg = "object" THEN "custom" ELSE cfg)
    ELSE answer

\* this.args['--custom'] !== undefined: given as a flag or typed at the prompt
CustomEndpointGiven(flag, cfg, answer) ==
    flag = "custom" \/ (flag = "none" /\ cfg = "none" /\ answer = "custom")

\* configNetwork of build(): the flags win over the object of the config
ConfigNetwork(flag, cfg, answer, flags, obj) ==
    IF CustomEndpointGiven(flag, cfg, answer)
    THEN [defined |-> TRUE, version |-> flags.version, type |-> flags.type, key |-> flags.key]
    ELSE IF cfg = "object"
    THEN [defined |-> TRUE, version |-> obj.version, type |-> obj.type, key |-> obj.key]
    ELSE [defined |-> FALSE, version |-> "none", type |-> "none", key |-> FALSE]

BuildFailed(msg) == [error |-> msg, tcKind |-> "none", network |-> "none", httpAdapter |-> FALSE]

BuildClientOf(kind, net, adapter) ==
    [error |-> "", tcKind |-> kind, network |-> net, httpAdapter |-> adapter]

\* the client class constructed for a version of a custom network
VersionKind(version) ==
    CASE version = "v4" -> "v4"
      [] version = "tonapi" -> "indexer"
      [] version = "liteclient" -> "liteclient"
      [] OTHER -> "v2"

\* chooseNetwork reaches this.ui.choose
PromptShown(flag, cfg) == flag = "none" /\ cfg = "none"

\* faulty variant: --custom-key alone is let through
CustomFlagsSet_NoKey(flags) == flags.type # "none" \/ flags.version # "none"

\* any of --custom-key, --custom-type, --custom-version is given
CustomFlagsSet(flags) == flags.key \/ flags.type # "none" \/ flags.version # "none"

\* faulty variant: a key with a v4 API is accepted
V4WithKey_Ignored(cn) == FALSE

\* configNetwork.version === 'v4' with configNetwork.key !== undefined
V4WithKey(cn) == cn.version = "v4" /\ cn.key

\* a liteservers entry as buildLiteClient validates it
PeerEntries == {"ok", "malformed"}

\* the answer to axios.get(configEndpoint): the request raises, liteservers
\* is not an array, or it is a list of entries
LiteConfigs ==
    [kind : {"raises", "not_array"}, liteservers : {<<>>}]
    \cup [kind : {"array"}, liteservers : UNION {[1..n -> PeerEntries] : n \in 0..MaxPeers}]

\* index of the first malformed entry from k on, 0 if there is none
RECURSIVE FirstMalformed(_, _)
FirstMalformed(list, k) ==
    IF k > Len(list) THEN 0
    ELSE IF list[k] = "malformed" THEN k
    ELSE FirstMalformed(list, k + 1)

\* data.liteservers.map(...): an entry is validated and its LiteSingleEngine
\* constructed before the next entry is looked at
EnginesConstructed(list) ==
    IF FirstMalformed(list, 1) = 0 THEN Len(list) ELSE FirstMalformed(list, 1) - 1

\* how buildLiteClient ends
LiteStatus(lc) ==
    CASE lc.kind = "raises" -> "raises"
      [] lc.kind = "not_array" -> "invalid"
      [] FirstMalformed(lc.liteservers, 1) # 0 -> "invalid"
      [] OTHER -> "ok"

\* build() from chooseNetwork to the construction of tc
BuildClientResult(flag, cfg, answer, flags, obj, allowCustom, lite) ==
    LET net == chooseNetwork(flag, cfg, answer)
        cn == ConfigNetwork(flag, cfg, answer, flags, obj)
    IN  IF net # "custom"
        THEN IF CustomFlagsSet(flags)
             THEN BuildFailed("Cannot use custom parameters with a non-custom network")
             ELSE BuildClientOf("v2", net, TRUE)
        ELSE IF ~cn.defined
        THEN BuildFailed("Custom network is (somehow) undefined")
        ELSE IF V4WithKey(cn)
        THEN BuildFailed("Cannot use a custom API key with a v4 API")
        ELSE IF cn.version = "other"
        THEN BuildFailed("Unknown API version")
        ELSE IF cn.version = "liteclient" /\ lite = "raises"
        THEN BuildFailed("Request failed")
        ELSE IF cn.version = "liteclient" /\ lite = "invalid"
        THEN BuildFailed("Invalid liteclient configuration")
        ELSE IF cn.type = "other"
        THEN BuildFailed("Unknown network type")
        ELSE IF cn.type = "none" /\ ~allowCustom
        THEN BuildFailed("The usage of this network provider requires either mainnet or testnet")
        ELSE BuildClientOf(VersionKind(cn.version),
                           IF cn.type = "none" THEN "custom" ELSE cn.type, FALSE)

\* the errors build() throws before it constructs or requests anything
ErrorsBeforeClient ==
    {"Cannot use custom parameters with a non-custom network",
     "Custom network is (somehow) undefined",
     "Cannot use a custom API key with a v4 API",
     "Unknown API version"}

\* the errors buildLiteClient ends with
ErrorsOfLiteClient == {"Request failed", "Invalid liteclient configuration"}

\* what build() has constructed and requested when it ends with result b for
\* a custom network of version `version` and the light-client answer lc
BuildTrace(b, net, version, lc) ==
    LET viaLite == net = "custom" /\ version = "liteclient" /\ b.error \notin ErrorsBeforeClient IN
    [clients |-> IF b.error \in ErrorsBeforeClient \cup ErrorsOfLiteClient THEN 0 ELSE 1,
     requests |-> IF viaLite THEN 1 ELSE 0,
     engines |-> IF viaLite /\ lc.kind = "array" THEN EnginesConstructed(lc.liteservers) ELSE 0]

\* build() up to `const sendProvider = await this.chooseSendProvider(...)`
BuildClient ==
    /\ pc = "build"
    /\ \E flag \in NetworkFlags, cfg \in ConfigNetworks, answer \in {"mainnet", "testnet", "custom"},
          flags \in CustomNetworks, obj \in CustomNetworks, allowCustom \in BOOLEAN,
          lc \in LiteConfigs :
        /\ cfg # "object" => obj = NoCustomNetwork
        /\ (flag # "none" \/ cfg # "none") => answer = "mainnet"
        /\ LET b == BuildClientResult(flag, cfg, answer, flags, obj, allowCustom, LiteStatus(lc))
               net == chooseNetwork(flag, cfg, answer)
               cn == ConfigNetwork(flag, cfg, answer, flags, obj)
               given == flag = "custom" \/ (flag = "none" /\ cfg = "none" /\ answer = "custom")
               t == BuildTrace(b, net, cn.version, lc)
           IN
           /\ cn.version # "liteclient" => lc = [kind |-> "array", liteservers |-> <<>>]
           /\ obs' = [obs EXCEPT !.built =
                         [@ EXCEPT !.flag = flag,
                                   !.cfg = cfg,
                                   !.prompted = PromptShown(flag, cfg),
                                   !.chosen = net,
                                   !.customFlags = flags.key \/ flags.type # "none"
                                                   \/ flags.version # "none",
                                   !.v4key = IF given THEN flags.version = "v4" /\ flags.key
                                             ELSE cfg = "object" /\ obj.version = "v4" /\ obj.key,
                                   !.malformedAt = IF t.requests = 1 /\ lc.kind = "array"
                                                   THEN FirstMalformed(lc.liteservers, 1) ELSE 0,
                                   !.allowCustom = allowCustom,
                                   !.clients = t.clients,
                                   !.requests = t.requests,
                                   !.engines = t.engines]]
           /\ IF b.error # ""
              THEN /\ pc' = "done"
                   /\ outcome' = Threw(b.error, <<>>)
                   /\ UNCHANGED <<tcKind, network, httpAdapter>>
              ELSE /\ pc' = "build_sender"
                   /\ outcome' = outcome
                   /\ tcKind' = b.tcKind
                   /\ network' = b.network
                   /\ httpAdapter' = b.httpAdapter
    /\ UNCHANGED <<op, senderAddress, build, http, internal, wfdVars, wfltVars, lastSendResult,
                   attempts, i, prompt, writes, cnt, cli>>

\* chooseSendProvider: the wallet kind, then the construction of the provider
BuildChooseSendProvider ==
    /\ pc = "build_sender"
    /\ \E deployUsing \in {"deeplink", "tonconnect", "mnemonic"}, envSet \in BOOLEAN :
        /\ deployUsing # "mnemonic" => envSet
        /\ IF deployUsing = "tonconnect" /\ network = "custom"
           THEN /\ pc' = "done"
                /\ outcome' = Threw("Tonkeeper cannot work with custom network.", <<>>)
           ELSE IF deployUsing = "mnemonic" /\ ~envSet
           THEN /\ pc' = "done"
                /\ outcome' = Threw("Mnemonic deployer was chosen, but env variables WALLET_MNEMONIC and WALLET_VERSION are not set", <<>>)
           ELSE /\ pc' = "build_connect"
                /\ outcome' = outcome
    /\ obs' = [obs EXCEPT !.built = [@ EXCEPT !.senderChosen = TRUE]]
    /\ UNCHANGED <<op, cfgVars, http, internal, wfdVars, wfltVars, lastSendResult,
                   attempts, i, prompt, writes, cnt>>

\* faulty variant: a failed connect is logged and build goes on
AfterConnect_Degraded(ok) ==
    [connected |-> ok, failed |-> ~ok, provider |-> TRUE, exitCode |-> -1]

\* try { await sendProvider.connect() } catch { process.exit(1) }, then the
\* construction of the sender and of the provider
AfterConnect(ok) ==
    IF ok THEN [connected |-> TRUE, failed |-> FALSE, provider |-> TRUE, exitCode |-> -1]
    ELSE [connected |-> FALSE, failed |-> TRUE, provider |-> FALSE, exitCode |-> 1]

\* connect() settles: the process exits, or the prompt is cleared, the sender
\* takes the address of the provider and build() returns
BuildConnect ==
    /\ pc = "build_connect"
    /\ \E ok \in BOOLEAN, address \in {"none", "addr"} :
        /\ build' = AfterConnect(ok)
        /\ IF build'.provider
           THEN /\ pc' = "idle"
                /\ senderAddress' = address
                /\ prompt' = ""
           ELSE /\ address = "none"
                /\ pc' = "exited"
                /\ UNCHANGED <<senderAddress, prompt>>
    /\ UNCHANGED <<op, tcKind, network, httpAdapter, http, internal, wfdVars, wfltVars,
                   lastSendResult, attempts, i, writes, cnt, obs, outcome, cli>>

\* ---------------------------------------------------------- waitForDeploy
\* the call and its guard
CallWaitForDeploy ==
    /\ pc = "idle"
    /\ \E n \in -1..MaxAttempts :
        /\ attempts' = n
        /\ op' = "waitForDeploy"
        /\ IF AttemptsInvalid(n)
           THEN /\ pc' = "done"
                /\ outcome' = Threw("Attempt number must be positive", <<>>)
                /\ i' = i
           ELSE /\ pc' = "wfd_loop"
                /\ outcome' = outcome
                /\ i' = 1
    /\ UNCHANGED <<cfgVars, http, internal, wfdVars, wfltVars, lastSendResult, prompt, writes, cnt, obs>>

\* faulty variant: the next poll is issued without the sleep
AfterPoll_NoSleep(deployed) == IF deployed THEN "wfd_settle" ELSE "wfd_loop"

\* where the iteration goes once isContractDeployed has answered: to the
\* verification, or to `await sleep(sleepDuration)` at the end of the body
AfterPoll(deployed) == IF deployed THEN "wfd_settle" ELSE "wfd_sleep"

\* one iteration up to the end of `await this.isContractDeployed(address)`
WfdPoll ==
    /\ pc = "wfd_loop"
    /\ LoopContinues(i, attempts)
    /\ \E resp \in AccountStates \cup {"raises"} :
        /\ cnt' = [cnt EXCEPT !.polls = @ + 1,
                              !.prompts = @ + (IF resp # "raises" /\ isContractDeployed(resp)
                                               THEN 2 ELSE 1)]
        /\ obs' = [obs EXCEPT !.pollRaised = @ \/ resp = "raises",
                              !.activeAt = IF resp = "active" /\ @ = 0 THEN cnt.polls + 1 ELSE @]
        /\ IF resp = "raises"
           THEN /\ pc' = "done"
                /\ outcome' = Threw("backend error", <<>>)
                /\ prompt' = "Awaiting contract deployment..."
           ELSE IF isContractDeployed(resp)
           THEN /\ pc' = AfterPoll(TRUE)
                /\ outcome' = outcome
                /\ prompt' = "Contract detected. Waiting for transaction confirmation..."
           ELSE /\ pc' = AfterPoll(FALSE)
                /\ outcome' = outcome
                /\ prompt' = "Awaiting contract deployment..."
    /\ UNCHANGED <<op, cfgVars, http, internal, wfdVars, wfltVars, lastSendResult, attempts, i, writes>>

\* await sleep(sleepDuration); i++
WfdSleep ==
    /\ pc = "wfd_sleep"
    /\ pc' = "wfd_loop"
    /\ i' = i + 1
    /\ cnt' = [cnt EXCEPT !.sleepsPoll = @ + 1]
    /\ UNCHANGED <<op, cfgVars, http, internal, wfdVars, wfltVars, lastSendResult, attempts, prompt,
                   writes, obs, outcome>>

\* the loop ran out: clearActionPrompt, throw
WfdTimeout ==
    /\ pc = "wfd_loop"
    /\ ~LoopContinues(i, attempts)
    /\ pc' = "done"
    /\ prompt' = ""
    /\ outcome' = Threw("Contract was not deployed. Check your wallet transactions", <<>>)
    /\ UNCHANGED <<op, cfgVars, http, internal, wfdVars, wfltVars, lastSendResult, attempts, i, writes,
                   cnt, obs>>

\* await sleep(3000), then verifyTransactionStatus up to its first await;
\* a client of no known class is answered { success: true } at once
WfdSettle ==
    /\ pc = "wfd_settle"
    /\ cnt' = [cnt EXCEPT !.sleepsSettle = @ + 1, !.verifies = @ + 1]
    /\ vAttempts' = 0
    /\ txs' = <<>>
    /\ IF ClientFetchesTransactions(tcKind)
       THEN /\ pc' = "vts_fetch"
            /\ UNCHANGED <<txStatus, chainTx>>
       ELSE /\ pc' = "wfd_check"
            /\ txStatus' = [known |-> TRUE, success |-> TRUE, error |-> <<>>, hasTx |-> FALSE]
            /\ chainTx' \in TransactionTypes
    /\ UNCHANGED <<op, cfgVars, http, internal, wfltVars, lastSendResult, attempts, i, specificTxStatus, prompt,
                   writes, obs, outcome>>

\* ------------------------------------------------- verifyTransactionStatus
\* the history request of the fetch loop: { limit } for the indexer and for
\* TonClient, no options for TonClient4
VerificationRequest(kind) ==
    [client |-> kind, limit |-> IF kind = "v4" THEN 0 ELSE 1, archival |-> FALSE]

\* one pass of the fetch loop up to the end of the awaited fetch; a non-empty
\* answer is classified and returned
VtsFetch ==
    /\ pc = "vts_fetch"
    /\ vAttempts < MAX_TONAPI_ATTEMPTS
    /\ obs' = [obs EXCEPT !.histReq = VerificationRequest(tcKind)]
    /\ \E resp \in {"throws", "empty", "tx"}, t \in TransactionTypes :
        IF resp = "tx"
        THEN /\ chainTx' = t
             /\ txs' = <<t>>
             /\ txStatus' = ClassifyTxs(<<t>>)
             /\ vAttempts' = 0
             /\ pc' = "wfd_check"
        ELSE /\ t = NoTx
             /\ pc' = "vts_sleep"
             /\ UNCHANGED <<chainTx, txs, txStatus, vAttempts>>
    /\ UNCHANGED <<op, cfgVars, http, internal, wfltVars, lastSendResult, attempts, i, specificTxStatus, prompt,
                   writes, cnt, outcome>>

\* await sleep(2000); attempts++
VtsSleep ==
    /\ pc = "vts_sleep"
    /\ vAttempts' = vAttempts + 1
    /\ pc' = "vts_fetch"
    /\ UNCHANGED <<op, cfgVars, http, internal, wfltVars, lastSendResult, attempts, i, chainTx, txs,
                   txStatus, specificTxStatus, prompt, writes, cnt, obs, outcome>>

\* the fetch loop ran out with txs empty
VtsExhausted ==
    /\ pc = "vts_fetch"
    /\ ~(vAttempts < MAX_TONAPI_ATTEMPTS)
    /\ txStatus' = ClassifyTxs(txs)
    /\ chainTx' \in TransactionTypes
    /\ vAttempts' = 0
    /\ pc' = "wfd_check"
    /\ UNCHANGED <<op, cfgVars, http, internal, wfltVars, lastSendResult, attempts, i, txs, specificTxStatus,
                   prompt, writes, cnt, obs, outcome>>

\* ------------------------------------- waitForDeploy after the verification
\* does verifyTransactionByHash reach axios.get for this provider
CrossCheckRequests(net) == net # "custom"

\* faulty variant: a failed verification is not acted upon
VerificationFailed_Ignored(st) == FALSE

\* if (!txStatus.success): the verification failed and waitForDeploy throws
VerificationFailed(st) == ~st.success

\* faulty variant: a failed cross-check aborts like a failed verification
CrossEffects_Fatal(w, st) ==
    [writes |-> IF ~st.success
                THEN Append(w, "Warning: Transaction verification via TonAPI indicates problems")
                ELSE Append(w, "info"),
     outcome |-> IF ~st.success THEN Threw("Transaction failed", <<>>) ELSE Returned]

\* what waitForDeploy does with the answer of verifyTransactionByHash: a
\* failure is written as a warning, then the report is written and it returns
CrossEffects(w, st) ==
    [writes |-> IF ~st.success
                THEN w \o <<"Warning: Transaction verification via TonAPI indicates problems", "info">>
                ELSE Append(w, "info"),
     outcome |-> Returned]

\* from `if (!txStatus.success)` to the next await or to the return
WfdCheck ==
    /\ pc = "wfd_check"
    /\ IF VerificationFailed(txStatus)
       THEN /\ prompt' = ""
            /\ writes' = Append(writes, "Contract deployed but transaction failed")
            /\ outcome' = Threw("Transaction failed", txStatus.error)
            /\ pc' = "done"
            /\ UNCHANGED <<specificTxStatus, cnt>>
       ELSE IF txStatus.hasTx /\ TxHashDefined(txs[1])
       THEN IF CrossCheckRequests(network)
            THEN /\ prompt' = "Verifying transaction status..."
                 /\ writes' = writes \o <<"Contract deployed at address", "You can view it at">>
                 /\ cnt' = [cnt EXCEPT !.prompts = @ + 1]
                 /\ pc' = "wfd_cross"
                 /\ UNCHANGED <<specificTxStatus, outcome>>
            ELSE /\ prompt' = ""
                 /\ specificTxStatus' = [known |-> TRUE, success |-> TRUE, hasTx |-> FALSE]
                 /\ writes' = writes \o <<"Contract deployed at address", "You can view it at", "info">>
                 /\ cnt' = [cnt EXCEPT !.prompts = @ + 1]
                 /\ outcome' = Returned
                 /\ pc' = "done"
       ELSE /\ prompt' = ""
            /\ writes' = writes \o <<"Contract deployed at address", "You can view it at">>
                            \o (IF txStatus.hasTx THEN <<"info">> ELSE <<>>)
            /\ outcome' = Returned
            /\ pc' = "done"
            /\ UNCHANGED <<specificTxStatus, cnt>>
    /\ UNCHANGED <<op, cfgVars, http, internal, wfltVars, lastSendResult, attempts, i, vAttempts, chainTx,
                   txs, txStatus, obs>>

\* the answer of axios.get in verifyTransactionByHash, to the return
WfdCross ==
    /\ pc = "wfd_cross"
    /\ cnt' = [cnt EXCEPT !.cross = @ + 1]
    /\ \E r \in IndexerResponses :
        LET st == verifyTransactionByHash(r) IN
        /\ specificTxStatus' = [known |-> TRUE, success |-> st.success, hasTx |-> st.hasTx]
        /\ writes' = CrossEffects(writes, st).writes
        /\ outcome' = CrossEffects(writes, st).outcome
    /\ prompt' = ""
    /\ pc' = "done"
    /\ UNCHANGED <<op, cfgVars, http, internal, wfltVars, lastSendResult, attempts, i, vAttempts, chainTx,
                   txs, txStatus, obs>>

\* verifyTransactionByHash called on the provider: for a custom network it
\* answers success without a request, else it reads the indexer's answer
CallVerifyTransactionByHash ==
    /\ pc = "idle"
    /\ op' = "verifyTransactionByHash"
    /\ IF CrossCheckRequests(network)
       THEN \E r \in IndexerResponses, status \in IndexerStatuses :
                LET st == verifyTransactionByHash(r) IN
                /\ r.kind # "data" => status = Undefined
                /\ obs' = [obs EXCEPT !.indexer = [answer |-> r, status |-> status]]
                /\ specificTxStatus' = [known |-> TRUE, success |-> st.success, hasTx |-> st.hasTx]
       ELSE /\ obs' = obs
            /\ specificTxStatus' = [known |-> TRUE, success |-> TRUE, hasTx |-> FALSE]
    /\ outcome' = Returned
    /\ pc' = "done"
    /\ UNCHANGED <<cfgVars, http, internal, wfltVars, lastSendResult, attempts, i, vAttempts, chainTx,
                   txs, txStatus, prompt, writes, cnt>>

\* -------------------------------------------------------- SendProviderSender
\* faulty variant: every send mode is let through
SendModeSupported_Any(mode) == TRUE

\* send(args): the sendMode guard, then provider.sendTransaction
SendModeSupported(mode) == mode = "undefined" \/ mode = "PAY_GAS_SEPARATELY"

\* faulty variant: a submission that raises clears the slot
AssignLastSendResult_ClearedOnRaise(prev, raises, r) == IF raises THEN NoSendResult ELSE r

\* this.#lastSendResult = await this.#provider.sendTransaction(...): the
\* assignment does not happen when the awaited submission raises
AssignLastSendResult(prev, raises, r) == IF raises THEN prev ELSE r

\* what the signing provider saw of one send call: was sendTransaction
\* called, was the mode one the sender does not support, what it returned
ObserveSend(o, mode, called, raises, r) ==
    [o EXCEPT !.unsupportedMode = mode \notin {"undefined", "PAY_GAS_SEPARATELY"},
              !.submitted = called,
              !.returned = IF called /\ ~raises THEN r ELSE @]

SenderSend ==
    /\ pc = "idle"
    /\ \E mode \in SendModes, raises \in BOOLEAN, r \in SendResults :
        IF ~SendModeSupported(mode)
        THEN /\ outcome' = Threw("Deployer sender does not support sendMode other than PAY_GAS_SEPARATELY", <<>>)
             /\ pc' = "done"
             /\ lastSendResult' = lastSendResult
             /\ obs' = ObserveSend(obs, mode, FALSE, raises, r)
        ELSE /\ lastSendResult' = AssignLastSendResult(lastSendResult, raises, r)
             /\ obs' = ObserveSend(obs, mode, TRUE, raises, r)
             /\ IF raises
                THEN /\ outcome' = Threw("sendTransaction error", <<>>)
                     /\ pc' = "done"
                ELSE /\ outcome' = outcome
                     /\ pc' = "idle"
    /\ UNCHANGED <<op, cfgVars, http, internal, wfdVars, wfltVars, attempts, i, prompt, writes, cnt>>

\* ------------------------------------------------------------------ deploy
\* if (waitAttempts <= 0) return
SkipsWait(waitAttempts) == waitAttempts <= 0

\* faulty variant: a contract without init is sent all the same
DeployGuard_InitUnchecked(isDeployed, hasInit) ==
    IF isDeployed THEN "Contract is already deployed!" ELSE ""

\* the two guards of deploy before the send: the error thrown, "" for none
DeployGuard(isDeployed, hasInit) ==
    IF isDeployed THEN "Contract is already deployed!"
    ELSE IF ~hasInit THEN "Contract has no init!"
    ELSE ""

\* deploy up to the call of this.#sender.send: the state read, then the two
\* guards
CallDeploy ==
    /\ pc = "idle"
    /\ op' = "deploy"
    /\ \E waitAttempts \in -1..MaxDeployAttempts, resp \in AccountStates \cup {"raises"},
          hasInit \in BOOLEAN :
        /\ attempts' = waitAttempts
        /\ obs' = [obs EXCEPT !.deployCase = CASE resp = "raises" -> "raises"
                                               [] resp = "active" -> "active"
                                               [] ~hasInit -> "no_init"
                                               [] OTHER -> "sendable"]
        /\ IF resp = "raises"
           THEN /\ pc' = "done"
                /\ outcome' = Threw("backend error", <<>>)
           ELSE IF DeployGuard(isContractDeployed(resp), hasInit) # ""
           THEN /\ pc' = "done"
                /\ outcome' = Threw(DeployGuard(isContractDeployed(resp), hasInit), <<>>)
           ELSE /\ pc' = "deploy_send"
                /\ outcome' = outcome
    /\ UNCHANGED <<cfgVars, http, internal, wfdVars, wfltVars, lastSendResult, i, prompt, writes,
                   cnt>>

\* the answer of this.#sender.send, then the return for waitAttempts <= 0 or
\* the call of waitForDeploy up to its loop
DeploySend ==
    /\ pc = "deploy_send"
    /\ \E raises \in BOOLEAN, r \in SendResults :
        /\ lastSendResult' = AssignLastSendResult(lastSendResult, raises, r)
        /\ obs' = ObserveSend(obs, "undefined", TRUE, raises, r)
        /\ IF raises
           THEN /\ pc' = "done"
                /\ outcome' = Threw("sendTransaction error", <<>>)
                /\ i' = i
           ELSE IF SkipsWait(attempts)
           THEN /\ pc' = "done"
                /\ outcome' = Returned
                /\ i' = i
           ELSE IF AttemptsInvalid(attempts)
           THEN /\ pc' = "done"
                /\ outcome' = Threw("Attempt number must be positive", <<>>)
                /\ i' = i
           ELSE /\ pc' = "wfd_loop"
                /\ outcome' = outcome
                /\ i' = 1
    /\ UNCHANGED <<op, cfgVars, http, internal, wfdVars, wfltVars, attempts, prompt, writes, cnt>>

\* ------------------------------------------ WrappedContractProvider.internal
\* faulty variant: the state is read for every internal send
NeedsStateRead_Always(held) == TRUE

\* this.#init && (await this.getState())...: getState is awaited only when
\* the wrapper holds init-data
NeedsStateRead(held) == held

\* faulty variant: init-data is attached whenever the wrapper holds it
AttachInit_Always(held, stateType) == held

\* const init = this.#init && state.type !== 'active' ? this.#init : undefined
AttachInit(held, stateType) == held /\ stateType # "active"

\* internal(via, args) up to its first await: the state read when init-data
\* is held, else the submission inside via.send
InternalCall ==
    /\ pc = "idle"
    /\ \E held \in BOOLEAN, mode \in SendModes :
        IF NeedsStateRead(held)
        THEN /\ mode = "undefined"
             /\ internal' = [NoInternal EXCEPT !.init = held, !.reads = 1]
             /\ pc' = "int_state"
             /\ UNCHANGED <<obs, outcome>>
        ELSE /\ internal' = [NoInternal EXCEPT !.init = held,
                                               !.attached = AttachInit(held, "none"),
                                               !.handed = TRUE]
             /\ obs' = ObserveSend(obs, mode, SendModeSupported(mode), TRUE, NoSendResult)
             /\ IF SendModeSupported(mode)
                THEN /\ pc' = "int_send"
                     /\ outcome' = outcome
                ELSE /\ pc' = "done"
                     /\ outcome' = Threw("Deployer sender does not support sendMode other than PAY_GAS_SEPARATELY", <<>>)
    /\ UNCHANGED <<op, cfgVars, http, wfdVars, wfltVars, lastSendResult, attempts, i, prompt,
                   writes, cnt>>

\* getState settles: init is computed and via.send runs up to the submission
InternalState ==
    /\ pc = "int_state"
    /\ \E resp \in AccountStates \cup {"raises"}, mode \in SendModes :
        IF resp = "raises"
        THEN /\ mode = "undefined"
             /\ pc' = "done"
             /\ outcome' = Threw("backend error", <<>>)
             /\ UNCHANGED <<internal, obs>>
        ELSE /\ internal' = [internal EXCEPT !.stateType = resp,
                                             !.attached = AttachInit(internal.init, resp),
                                             !.handed = TRUE]
             /\ obs' = ObserveSend(obs, mode, SendModeSupported(mode), TRUE, NoSendResult)
             /\ IF SendModeSupported(mode)
                THEN /\ pc' = "int_send"
                     /\ outcome' = outcome
                ELSE /\ pc' = "done"
                     /\ outcome' = Threw("Deployer sender does not support sendMode other than PAY_GAS_SEPARATELY", <<>>)
    /\ UNCHANGED <<op, cfgVars, http, wfdVars, wfltVars, lastSendResult, attempts, i, prompt,
                   writes, cnt>>

\* provider.sendTransaction settles inside via.send, and internal returns
InternalSettle ==
    /\ pc = "int_send"
    /\ \E raises \in BOOLEAN, r \in SendResults :
        /\ lastSendResult' = AssignLastSendResult(lastSendResult, raises, r)
        /\ obs' = ObserveSend(obs, "undefined", TRUE, raises, r)
        /\ IF raises
           THEN /\ pc' = "done"
                /\ outcome' = Threw("sendTransaction error", <<>>)
                /\ internal' = internal
           ELSE /\ pc' = "idle"
                /\ outcome' = outcome
                /\ internal' = NoInternal
    /\ UNCHANGED <<op, cfgVars, http, wfdVars, wfltVars, attempts, i, prompt, writes, cnt>>

\* ------------------------------------------------- waitForLastTransaction
\* getNormalizedExtMessageHash: the hash of the message with src, importFee
\* and init dropped
getNormalizedExtMessageHash(m) == m.content

\* faulty variant: the type of the boc field is not looked at
HasBoc_AnyType(r) == r.shape \in {"boc", "boc_not_string"}

\* obtainInMessageHash: does lastSendResult carry a string boc
HasBoc(r) == r.shape = "boc"

\* faulty variant: the type of the inbound message is not looked at
RECURSIVE FirstMatch_AnyType(_, _, _)
FirstMatch_AnyType(list, k, tgt) ==
    IF k > Len(list) THEN 0
    ELSE IF list[k].inType # "none" /\ getNormalizedExtMessageHash(list[k].msg) = tgt THEN k
    ELSE FirstMatch_AnyType(list, k + 1, tgt)

\* the loop of isTransactionApplied: index of the first match, 0 if none
RECURSIVE FirstMatch(_, _, _)
FirstMatch(list, k, tgt) ==
    IF k > Len(list) THEN 0
    ELSE IF list[k].inType # "external-in" THEN FirstMatch(list, k + 1, tgt)
    ELSE IF getNormalizedExtMessageHash(list[k].msg) = tgt THEN k
    ELSE FirstMatch(list, k + 1, tgt)

\* does the history the backend returned hold the transaction looked for
HistoryHolds(list, tgt) ==
    \E k \in DOMAIN list :
        list[k].inType = "external-in" /\ getNormalizedExtMessageHash(list[k].msg) = tgt

\* faulty variant: no transaction is ever matched
isTransactionApplied_Never(list, tgt) == NotApplied

isTransactionApplied(list, tgt) ==
    LET k == FirstMatch(list, 1, tgt) IN
    IF k = 0 THEN NotApplied ELSE [isApplied |-> TRUE, transaction |-> list[k]]

CallWaitForLastTransaction ==
    /\ pc = "idle"
    /\ \E n \in -1..MaxAttempts :
        /\ attempts' = n
        /\ op' = "waitForLastTransaction"
        /\ IF AttemptsInvalid(n)
           THEN /\ pc' = "done"
                /\ outcome' = Threw("Attempt number must be positive", <<>>)
                /\ UNCHANGED <<i, inMessageHash>>
           ELSE IF senderAddress = "none"
           THEN /\ pc' = "done"
                /\ outcome' = Threw("Sender must have an address", <<>>)
                /\ UNCHANGED <<i, inMessageHash>>
           ELSE IF ~HasBoc(lastSendResult)
           THEN /\ pc' = "done"
                /\ outcome' = Threw("Not implemented", <<>>)
                /\ UNCHANGED <<i, inMessageHash>>
           ELSE /\ pc' = "wflt_loop"
                /\ outcome' = outcome
                /\ i' = 1
                /\ inMessageHash' = getNormalizedExtMessageHash(lastSendResult.msg)
    /\ UNCHANGED <<cfgVars, http, internal, wfdVars, lastSendResult, lastTxs, result, prompt, writes, cnt, obs>>

\* one iteration up to the end of `await provider.getState()` in
\* isTransactionApplied
WfltPoll ==
    /\ pc = "wflt_loop"
    /\ LoopContinues(i, attempts)
    /\ prompt' = "Awaiting transaction..."
    /\ cnt' = [cnt EXCEPT !.prompts = @ + 1, !.txPolls = @ + 1]
    /\ \E resp \in {"raises", "no_last", "last"} :
        CASE resp = "raises" ->
                /\ pc' = "done"
                /\ outcome' = Threw("backend error", <<>>)
                /\ obs' = [obs EXCEPT !.pollRaised = TRUE]
                /\ UNCHANGED <<lastTxs, result>>
          [] resp = "no_last" ->
                /\ pc' = "wflt_decide"
                /\ lastTxs' = <<>>
                /\ result' = NotApplied
                /\ outcome' = outcome
                /\ obs' = obs
          [] OTHER ->
                /\ pc' = "wflt_fetch"
                /\ outcome' = outcome
                /\ UNCHANGED <<lastTxs, result, obs>>
    /\ UNCHANGED <<op, cfgVars, http, internal, wfdVars, lastSendResult, attempts, i, inMessageHash, writes>>

\* the history request of getLastTransactions: TonClient is asked for 100
\* transactions with archival set, the other clients through their provider
LastTransactionsRequest(kind) ==
    IF kind = "v2" THEN [client |-> kind, limit |-> 100, archival |-> TRUE]
    ELSE [client |-> kind, limit |-> 0, archival |-> FALSE]

\* getLastTransactions inside try/catch, then the matching loop
WfltFetch ==
    /\ pc = "wflt_fetch"
    /\ \E resp \in {"throws", "state_raises", "no_last", "list"}, h \in Histories :
        /\ resp \in {"state_raises", "no_last"} => tcKind # "v2"
        /\ resp # "list" => h = <<>>
        /\ lastTxs' = h
        /\ result' = IF resp \in {"throws", "state_raises"} THEN NotApplied
                     ELSE isTransactionApplied(h, inMessageHash)
        /\ obs' = [obs EXCEPT !.foundAt = IF @ = 0 /\ HistoryHolds(h, inMessageHash)
                                          THEN cnt.txPolls ELSE @,
                              !.histReq = IF resp \in {"state_raises", "no_last"} THEN @
                                          ELSE LastTransactionsRequest(tcKind)]
    /\ pc' = "wflt_decide"
    /\ UNCHANGED <<op, cfgVars, http, internal, wfdVars, lastSendResult, attempts, i, inMessageHash, prompt,
                   writes, cnt, outcome>>

\* how the matched transaction ended on chain (transaction.description):
\* waitForLastTransaction passes the transaction to getTransactionLink and
\* reads nothing of its description
TxDescriptions == {"succeeded", "aborted", "exit_code_not_0_1"}

\* if (result.isApplied) { ...; return }; the request and the list of the
\* iteration are dropped with it
WfltDecide ==
    /\ pc = "wflt_decide"
    /\ IF result.isApplied
       THEN /\ prompt' = ""
            /\ writes' = writes \o <<"Transaction successfully applied!", "You can view it at">>
            /\ outcome' = Returned
            /\ pc' = "done"
            /\ result' = result
            /\ \E d \in TxDescriptions :
                   obs' = [obs EXCEPT !.histReq = NoHistoryRequest, !.matched = d]
       ELSE /\ pc' = "wflt_sleep"
            /\ result' = NotApplied
            /\ obs' = [obs EXCEPT !.histReq = NoHistoryRequest]
            /\ UNCHANGED <<prompt, writes, outcome>>
    /\ lastTxs' = <<>>
    /\ UNCHANGED <<op, cfgVars, http, internal, wfdVars, lastSendResult, attempts, i, inMessageHash, cnt>>

\* await sleep(sleepDuration); i++
WfltSleep ==
    /\ pc = "wflt_sleep"
    /\ pc' = "wflt_loop"
    /\ i' = i + 1
    /\ cnt' = [cnt EXCEPT !.sleepsPoll = @ + 1]
    /\ UNCHANGED <<op, cfgVars, http, internal, wfdVars, wfltVars, lastSendResult, attempts, prompt,
                   writes, obs, outcome>>

\* the loop ran out: throw (the prompt is left as it is)
WfltTimeout ==
    /\ pc = "wflt_loop"
    /\ ~LoopContinues(i, attempts)
    /\ pc' = "done"
    /\ outcome' = Threw("Transaction was not applied. Check your wallet transactions", <<>>)
    /\ UNCHANGED <<op, cfgVars, http, internal, wfdVars, wfltVars, lastSendResult, attempts, i, prompt,
                   writes, cnt, obs>>

\* ------------------------------------------------------------- httpAdapter
\* what one HTTP request of the backend client meets: a 2xx status, HTTP 429,
\* another status, or no connection at all
HttpAnswers == {"2xx", "429", "other_status", "no_connection"}

\* validateStatus of the request the adapter sends: 2xx and 429 resolve
AdapterValidateStatus(status) == status = "2xx" \/ status = "429"

\* validateStatus of axios when the client has no adapter: only 2xx resolves
DefaultValidateStatus(status) == status = "2xx"

\* faulty variant: the delay grows by the initial delay
NextDelay_Linear(delay) == delay + INITIAL_DELAY

\* delay *= 2
NextDelay(delay) == delay * 2

\* faulty variant: one more round is allowed
MaxAttemptsReached_Late(a) == a > MAX_ATTEMPTS

\* if (attempts >= MAX_ATTEMPTS) throw
MaxAttemptsReached(a) == a >= MAX_ATTEMPTS

\* a backend call enters the transport and the first request is sent: through
\* httpAdapter when the client was built with it, else through axios directly
HttpCall ==
    /\ pc = "idle"
    /\ pc' = "http_request"
    /\ http' = [NoHttp EXCEPT !.delay = IF httpAdapter THEN INITIAL_DELAY ELSE 0,
                              !.requests = 1]
    /\ UNCHANGED <<op, cfgVars, internal, wfdVars, wfltVars, lastSendResult, attempts, i,
                   prompt, writes, cnt, obs, outcome>>

\* the request settles: a status validateStatus rejects and a failed
\* connection raise, 429 goes to the sleep, anything else is returned
HttpResponse ==
    /\ pc = "http_request"
    /\ \E status \in HttpAnswers :
        /\ http' = [http EXCEPT !.r = status]
        /\ IF status = "no_connection"
              \/ (httpAdapter /\ ~AdapterValidateStatus(status))
              \/ (~httpAdapter /\ ~DefaultValidateStatus(status))
           THEN /\ pc' = "done"
                /\ outcome' = Threw("Request failed", <<>>)
           ELSE IF status # "429"
           THEN /\ pc' = "done"
                /\ outcome' = Returned
           ELSE /\ pc' = "http_sleep"
                /\ outcome' = outcome
    /\ UNCHANGED <<op, cfgVars, internal, wfdVars, wfltVars, lastSendResult, attempts, i,
                   prompt, writes, cnt, obs>>

\* await sleep(delay); delay *= 2; attempts++; throw or send the next request
HttpSleep ==
    /\ pc = "http_sleep"
    /\ IF MaxAttemptsReached(http.attempts + 1)
       THEN /\ pc' = "done"
            /\ outcome' = Threw("Max attempts reached", <<>>)
            /\ http' = [http EXCEPT !.slept = Append(@, http.delay),
                                    !.delay = NextDelay(@),
                                    !.attempts = @ + 1]
       ELSE /\ pc' = "http_request"
            /\ outcome' = outcome
            /\ http' = [http EXCEPT !.slept = Append(@, http.delay),
                                    !.delay = NextDelay(@),
                                    !.attempts = @ + 1,
                                    !.requests = @ + 1]
    /\ UNCHANGED <<op, cfgVars, internal, wfdVars, wfltVars, lastSendResult, attempts, i,
                   prompt, writes, cnt, obs>>

\* ------------------------------------------------------ command-line runner
\* args._[0]: run, build, a command whose runner has no hooks of its own, and
\* a name no runner is registered under
Commands == {"run", "build", "create", "unknown"}

\* args._[1] of `blueprint action`
ActionNames == {"run", "build", "test", "create", "unknown"}

\* result.status of the test run
TestStatuses == {0, 1}

\* what a hook lookup finds in package.json for the command and its argument:
\* no matching script, a script that exits 0, a script that fails
HookScripts == {"none", "ok", "fails"}

\* what a call that is awaited does: it resolves or it rejects
Settles == {"returns", "raises"}

\* runNpmHook on what its lookup found: the script is executed when there is one
runNpmHook(h) == [ran |-> h # "none", success |-> h # "fails"]

\* main runs the hooks itself for every command but run and build
HooksInMain(command) == command \notin {"run", "build"}

\* main: pre-hook, runner, post-hook
MainStages == <<"pre", "body", "post">>

\* run: script selection, pre-hook, createNetworkProvider, mod.run, post-hook
RunStages == <<"select", "pre", "provider", "body", "post">>

\* build: contract selection, checkBlueprintHooks and runNpmHook before
\* buildOne, runNpmHook and checkBlueprintHooks after it
BuildStages == <<"select", "bp_pre", "pre", "body", "post", "bp_post">>

\* action run: script selection, createNetworkProvider, mod.run
ActionRunStages == <<"select", "provider", "body">>

\* test: pre-hook, the test run, post-hook
TestStages == <<"pre", "tests", "post">>

\* a runner that only does its work
PlainStages == <<"body">>

Stages(site) ==
    CASE site = "main" -> MainStages
      [] site = "run" -> RunStages
      [] site = "build" -> BuildStages
      [] site = "action_run" -> ActionRunStages
      [] site = "test" -> TestStages
      [] OTHER -> PlainStages

\* the code that takes the command to its end: run and build bring their own
\* hooks, every other command gets main's
SiteOf(command) == IF HooksInMain(command) THEN "main" ELSE command

\* the runner `action` hands the action name to: run is handled in place
\* without hooks, the others go to the registered runner
ActionSiteOf(actionName) ==
    CASE actionName = "run" -> "action_run"
      [] actionName = "build" -> "build"
      [] actionName = "test" -> "test"
      [] OTHER -> "plain"

\* checkBlueprintHooks returns at once when process.argv holds `action`
SkippedStage(stage, viaAction) == stage \in {"bp_pre", "bp_post"} /\ viaAction

\* the await a stage starts with
PcOf(stage) ==
    CASE stage \in {"pre", "post", "bp_pre", "bp_post"} -> "cli_hook"
      [] stage = "select" -> "cli_select"
      [] stage = "provider" -> "cli_provider"
      [] stage = "tests" -> "cli_tests"
      [] OTHER -> "cli_body"

\* the positions where the task waits for the event loop, which is where a
\* signal handler can run
AwaitPcs == {"cli_config", "cli_hook", "cli_select", "cli_provider", "cli_body"}

RECURSIVE FirstStage(_, _, _)
\* the first stage from k on that does not return at once
FirstStage(site, viaAction, k) ==
    IF k > Len(Stages(site)) THEN k
    ELSE IF SkippedStage(Stages(site)[k], viaAction) THEN FirstStage(site, viaAction, k + 1)
    ELSE k

\* process.exit(code)
Exit(c, code) ==
    /\ pc' = "exited"
    /\ cli' = [c EXCEPT !.exitCode = code]

\* the runner returned: main closes the UI and resolves, and the process exits
\* 0; the action runner returns to its caller
Finish(c) ==
    IF c.viaAction
    THEN /\ pc' = "returned"
         /\ cli' = c
    ELSE Exit(c, 0)

\* an error left a runner: main's catch exits 1, and so do the catches of run,
\* build and action run; the error of a runner called by action leaves action
Raise(c) ==
    IF c.viaAction /\ c.site = "plain"
    THEN /\ pc' = "raised"
         /\ cli' = c
    ELSE Exit(c, 1)

\* go on with stage k, running through to the next await
Enter(c, k) ==
    LET j == FirstStage(c.site, c.viaAction, k) IN
    IF j > Len(Stages(c.site))
    THEN Finish(c)
    ELSE /\ pc' = PcOf(Stages(c.site)[j])
         /\ cli' = [c EXCEPT !.stage = j,
                             !.invoked = @ \/ Stages(c.site)[j] \in {"body", "tests"}]

\* a pre-hook that failed aborts the command
AfterPreHook_Lenient(success) == "continue"

AfterPreHook(success) == IF success THEN "continue" ELSE "exit"

\* main up to its first await: without arguments it shows the help and exits 0
CliMain ==
    /\ pc = "main"
    /\ \E c \in Commands \cup {"none"} :
        IF c = "none"
        THEN Exit(cli, 0)
        ELSE /\ pc' = "cli_config"
             /\ cli' = [cli EXCEPT !.command = c]
    /\ UNCHANGED providerVars

\* getConfig settled: a rejection leaves main unhandled and the process exits
\* 1; an unknown command exits 1; otherwise the command starts
CliConfig ==
    /\ pc = "cli_config"
    /\ ~cli.pending
    /\ \E r \in Settles :
        IF r = "raises" \/ cli.command = "unknown"
        THEN Exit(cli, 1)
        ELSE Enter([cli EXCEPT !.site = SiteOf(cli.command)], 1)
    /\ UNCHANGED providerVars

\* action up to its first await
ActionCall ==
    /\ pc = "action"
    /\ \E a \in ActionNames \cup {"none"} :
        CASE a = "none" -> Finish(cli)
          [] a = "unknown" -> Exit(cli, 1)
          [] OTHER -> Enter([cli EXCEPT !.command = a, !.site = ActionSiteOf(a)], 1)
    /\ UNCHANGED providerVars

\* the script or contract selection settled
CliSelect ==
    /\ pc = "cli_select"
    /\ ~cli.pending
    /\ \E r \in Settles :
        IF r = "raises" THEN Raise(cli) ELSE Enter(cli, cli.stage + 1)
    /\ UNCHANGED providerVars

\* createNetworkProvider settled
CliProvider ==
    /\ pc = "cli_provider"
    /\ ~cli.pending
    /\ \E r \in Settles :
        IF r = "raises" THEN Raise(cli) ELSE Enter(cli, cli.stage + 1)
    /\ UNCHANGED providerVars

\* the runner, the build or the script's run settled
CliBody ==
    /\ pc = "cli_body"
    /\ ~cli.pending
    /\ \E r \in Settles :
        LET c == [cli EXCEPT !.body = r] IN
        IF r = "raises" THEN Raise(c) ELSE Enter(c, cli.stage + 1)
    /\ UNCHANGED providerVars

\* the test run, which blocks the event loop, ended: a status other than 0
\* becomes the exit code
CliTests ==
    /\ pc = "cli_tests"
    /\ \E status \in TestStatuses :
        IF status # 0
        THEN Exit([cli EXCEPT !.body = "fails"], status)
        ELSE Enter([cli EXCEPT !.body = "returns"], cli.stage + 1)
    /\ UNCHANGED providerVars

\* package.json was read: a matching script starts under execSync, which
\* blocks the event loop until the script ends
HookRead ==
    /\ pc = "cli_hook"
    /\ ~cli.pending
    /\ \E h \in HookScripts :
        LET stage == Stages(cli.site)[cli.stage]
            c == [cli EXCEPT !.preHook = IF stage = "pre" THEN h ELSE @,
                             !.postHook = IF stage = "post" THEN h ELSE @]
        IN IF runNpmHook(h).ran
           THEN /\ pc' = "cli_exec"
                /\ cli' = [c EXCEPT !.script = h]
           ELSE Enter(c, cli.stage + 1)
    /\ UNCHANGED providerVars

\* the hook script ended and the caller runs on to its next await or to the
\* exit: a failed pre-hook exits 1, a failed post-hook only warns, the result
\* of checkBlueprintHooks is not read
HookExec ==
    /\ pc = "cli_exec"
    /\ LET stage == Stages(cli.site)[cli.stage]
           r == runNpmHook(cli.script)
           c == [cli EXCEPT !.script = "none",
                            !.executed = @ \cup {stage},
                            !.warned = @ \/ (stage = "post" /\ ~r.success)]
       IN IF stage = "pre" /\ AfterPreHook(r.success) = "exit"
          THEN Exit(c, 1)
          ELSE Enter(c, cli.stage + 1)
    /\ UNCHANGED providerVars

\* the operator's interrupt signal reaches the running process
Interrupt ==
    /\ pc \notin {"exited", "returned", "raised"}
    /\ cli.interrupted = "none"
    /\ cli' = [cli EXCEPT !.pending = TRUE, !.interrupted = pc]
    /\ UNCHANGED <<pc, providerVars>>

\* the SIGINT handler, run by the event loop
SigintHandler ==
    /\ pc \in AwaitPcs
    /\ cli.pending
    /\ Exit([cli EXCEPT !.pending = FALSE], 130)
    /\ UNCHANGED providerVars

\* ---------------------------------------------------------- specification
\* the steps of waitForDeploy
NextDeploy ==
    \/ CallWaitForDeploy
    \/ WfdPoll
    \/ WfdSleep
    \/ WfdTimeout
    \/ WfdSettle
    \/ VtsFetch
    \/ VtsSleep
    \/ VtsExhausted
    \/ WfdCheck
    \/ WfdCross

\* the sends and the steps of waitForLastTransaction
NextLastTx ==
    \/ SenderSend
    \/ CallWaitForLastTransaction
    \/ WfltPoll
    \/ WfltFetch
    \/ WfltDecide
    \/ WfltSleep
    \/ WfltTimeout

\* one call through the transport of the backend client
NextHttp ==
    \/ HttpCall
    \/ HttpResponse
    \/ HttpSleep

\* internal sends through a WrappedContractProvider
NextInternal ==
    \/ InternalCall
    \/ InternalState
    \/ InternalSettle

\* build() and the sends through the sender it returns
NextBuild ==
    \/ BuildClient
    \/ BuildChooseSendProvider
    \/ BuildConnect
    \/ SenderSend

Next == NextDeploy \/ NextLastTx \/ NextHttp \/ NextInternal

\* a provider whose script sends, directly or through opened contracts, and
\* then makes a backend call or calls either wait
Spec == Init /\ [][Next]_vars

\* a provider whose script calls waitForDeploy. Every step is one await of the
\* single task, which the event loop resumes when the awaited call settles or
\* the timer fires: a step that stays enabled is taken.
DeploySpec == Init /\ [][NextDeploy]_vars /\ WF_vars(NextDeploy)

\* a provider whose script sends and then calls waitForLastTransaction
LastTxSpec == Init /\ [][NextLastTx]_vars

\* a provider whose script makes one backend call through the transport
HttpSpec == Init /\ [][NextHttp]_vars

\* a provider whose script sends internal messages through opened contracts
InternalSpec == Init /\ [][NextInternal]_vars

\* a builder whose build() runs and whose provider, once returned, sends
BuildSpec == InitBuild /\ [][NextBuild]_vars

\* deploy and the steps of the waitForDeploy it calls
NextDeployFn ==
    \/ CallDeploy
    \/ DeploySend
    \/ WfdPoll
    \/ WfdSleep
    \/ WfdTimeout
    \/ WfdSettle
    \/ VtsFetch
    \/ VtsSleep
    \/ VtsExhausted
    \/ WfdCheck
    \/ WfdCross

\* a provider whose script calls deploy
DeployFnSpec == Init /\ [][NextDeployFn]_vars

\* verifyTransactionByHash called on its own
ByHashSpec == Init /\ [][CallVerifyTransactionByHash]_vars

\* main, the runner of the command, and the operator's interrupt
NextCli ==
    \/ CliMain
    \/ CliConfig
    \/ CliSelect
    \/ CliProvider
    \/ CliBody
    \/ HookRead
    \/ HookExec
    \/ Interrupt
    \/ SigintHandler

\* one run of the command-line process
CliSpec == InitCli /\ [][NextCli]_vars

\* the action runner, the runner it hands over to, and the operator's interrupt
NextAction ==
    \/ ActionCall
    \/ CliSelect
    \/ CliProvider
    \/ CliBody
    \/ CliTests
    \/ HookRead
    \/ HookExec
    \/ Interrupt
    \/ SigintHandler

\* one run of `blueprint action`
ActionSpec == InitAction /\ [][NextAction]_vars

\* ------------------------------------------------------------ properties
WfdDone == op = "waitForDeploy" /\ pc = "done"

ExitCodeFails(tx) == \E c \in tx.exit_code : c \notin {0, 1}

TimeoutError == Threw("Contract was not deployed. Check your wallet transactions", <<>>)

ConfigError == Threw("Attempt number must be positive", <<>>)

TonApiWarning == "Warning: Transaction verification via TonAPI indicates problems"

InWrites(m) == \E k \in DOMAIN writes : writes[k] = m

\* C1: a transaction examined by verifyTransactionStatus is classified failed
\* exactly when its exit code is defined and outside {0,1}, or its status is
\* 'failed', or its success flag is false.
C1_FailedIffExitStatusOrFlag ==
    (txStatus.known /\ txStatus.hasTx) =>
        (~txStatus.success <=>
            (ExitCodeFails(txs[1]) \/ txs[1].status = "failed" \/ txs[1].success = "false"))

\* C2: waitForDeploy returns normally only if the verification fetched a
\* transaction of the address and classified it as successful.
C2_ReturnsOnlyOnVerifiedTransaction ==
    (WfdDone /\ outcome.kind = "returned") =>
        (txStatus.known /\ txStatus.hasTx /\ txStatus.success)

\* C3: for every backend kind, when the most recent transaction of the
\* activated address has an exit code outside {0,1}, waitForDeploy raises the
\* transaction-failed error and its text names that exit code.
C3_BadExitCodeRaisesOnEveryBackend ==
    (WfdDone /\ obs.activeAt # 0 /\ ExitCodeFails(chainTx)) =>
        /\ outcome.kind = "threw"
        /\ outcome.msg = "Transaction failed"
        /\ \E c \in chainTx.exit_code, k \in DOMAIN outcome.detail :
              outcome.detail[k] = <<"Exit code", ToString(c)>>

\* C4: when the backend first reports the address active on poll k, exactly k
\* activation polls are issued, the call goes on to the verification, and no
\* poll follows the one that saw the activation.
C4_ExactlyKPollsThenVerification ==
    (op = "waitForDeploy" /\ obs.activeAt # 0) =>
        /\ cnt.polls = obs.activeAt
        /\ pc \in {"wfd_settle", "vts_fetch", "vts_sleep", "wfd_check", "wfd_cross", "done"}
        /\ pc # "wfd_settle" => cnt.verifies = 1

C4_ActiveOnSecondPollOfThree ==
    /\ WfdDone
    /\ attempts = 3
    /\ obs.activeAt = 2
    /\ cnt.polls = 2
    /\ cnt.verifies = 1

\* C5: waitForDeploy with attempts = n > 0 terminates, and when the address is
\* never active and no poll raises it has issued exactly n polls and fails with
\* the timeout error, whatever else the backend does.
C5_TerminatesAfterExactlyNPolls ==
    /\ [](op = "waitForDeploy" => <>(pc = "done"))
    /\ []((WfdDone /\ attempts > 0 /\ obs.activeAt = 0 /\ ~obs.pollRaised) =>
            (cnt.polls = attempts /\ cnt.sleepsPoll = attempts /\ outcome = TimeoutError))

C5_TimedOutAfterThreePolls ==
    /\ WfdDone
    /\ attempts = 3
    /\ obs.activeAt = 0
    /\ cnt.polls = 3
    /\ outcome = TimeoutError

\* C6: waitForDeploy and waitForLastTransaction called with attempts <= 0 fail
\* with the configuration error before any backend call, prompt update or sleep.
C6_NonPositiveAttemptsRejectedFirst ==
    (op # "none" /\ attempts <= 0) =>
        /\ pc = "done"
        /\ outcome = ConfigError
        /\ cnt.polls = 0 /\ cnt.txPolls = 0 /\ cnt.verifies = 0 /\ cnt.cross = 0
        /\ cnt.prompts = 0 /\ prompt = ""
        /\ cnt.sleepsPoll = 0 /\ cnt.sleepsSettle = 0

C6_ZeroAttemptsWithoutSenderAddress ==
    /\ op = "waitForLastTransaction"
    /\ attempts = 0
    /\ senderAddress = "none"
    /\ pc = "done"
    /\ outcome = ConfigError

\* C7: once the verification has classified the transaction as failed, the
\* only step left is the raise: no poll, verification or cross-check follows.
C7_FailedVerificationRaisesAtOnce ==
    [][(txStatus.known /\ ~txStatus.success) =>
          /\ pc' = "done"
          /\ outcome'.kind = "threw"
          /\ outcome'.msg = "Transaction failed"
          /\ cnt'.polls = cnt.polls
          /\ cnt'.verifies = cnt.verifies
          /\ cnt'.cross = cnt.cross]_vars

C7_RaisedWithoutCrossCheck ==
    /\ WfdDone
    /\ txStatus.known /\ ~txStatus.success /\ TxHashDefined(txs[1])
    /\ network # "custom"
    /\ outcome.msg = "Transaction failed"
    /\ cnt.cross = 0

\* C8: a cross-check that reports a failure or cannot reach the indexer never
\* makes waitForDeploy raise: a warning is written and the call returns.
C8_CrossCheckFailureOnlyWarns ==
    (specificTxStatus.known /\ ~specificTxStatus.success) =>
        /\ pc = "done"
        /\ outcome = Returned
        /\ InWrites(TonApiWarning)
        /\ prompt = ""

C8_WarnedAndReturned ==
    /\ WfdDone
    /\ txStatus.success
    /\ specificTxStatus.known /\ ~specificTxStatus.success /\ ~specificTxStatus.hasTx
    /\ outcome = Returned

\* the states of the engine, read off the position in waitForDeploy
Phase ==
    CASE pc \in {"wfd_loop", "wfd_sleep"} -> "AWAITING_ACTIVATION"
      [] pc = "wfd_settle" -> "ACTIVATION_DETECTED"
      [] pc \in {"vts_fetch", "vts_sleep", "wfd_check", "wfd_cross"} -> "VERIFYING_TRANSACTION"
      [] pc = "done" /\ outcome = Returned /\ ~InWrites(TonApiWarning) -> "CONFIRMED"
      [] pc = "done" /\ outcome = Returned /\ InWrites(TonApiWarning) -> "CONFIRMED_WITH_WARNING"
      [] pc = "done" /\ outcome.msg = "Transaction failed" -> "FAILED"
      [] pc = "done" /\ outcome = TimeoutError -> "TIMED_OUT"
      [] pc = "done" /\ outcome.msg = "backend error" -> "POLL_RAISED"
      [] OTHER -> "NONE"

PhaseRank(ph) ==
    CASE ph = "NONE" -> 0
      [] ph = "AWAITING_ACTIVATION" -> 1
      [] ph = "ACTIVATION_DETECTED" -> 2
      [] ph = "VERIFYING_TRANSACTION" -> 3
      [] OTHER -> 4

FourTerminals == {"CONFIRMED", "CONFIRMED_WITH_WARNING", "FAILED", "TIMED_OUT"}

\* C9 as stated: every terminated waitForDeploy with attempts > 0 is in one of
\* the four terminal states, and verification is entered only after activation.
C9_EndsInOneOfFourTerminals ==
    /\ (WfdDone /\ attempts > 0) => Phase \in FourTerminals
    /\ (op = "waitForDeploy" /\ Phase = "VERIFYING_TRANSACTION") => obs.activeAt # 0

\* C9 amended: every terminated waitForDeploy with attempts > 0 is in one of
\* the four terminal states or has propagated the error of an activation poll
\* that raised while awaiting activation; the engine only moves forward, and
\* verification is entered only after activation was observed.
C9_EndsInTerminalOrPollError ==
    [][(op' = "waitForDeploy" /\ attempts' > 0) =>
          /\ PhaseRank(Phase') >= PhaseRank(Phase)
          /\ Phase' \in {"ACTIVATION_DETECTED", "VERIFYING_TRANSACTION"} => obs'.activeAt # 0
          /\ Phase' \in {"CONFIRMED", "CONFIRMED_WITH_WARNING", "FAILED"} =>
                Phase = "VERIFYING_TRANSACTION"
          /\ Phase' \in {"TIMED_OUT", "POLL_RAISED"} => Phase = "AWAITING_ACTIVATION"
          /\ pc' = "done" => Phase' \in FourTerminals \cup {"POLL_RAISED"}
          /\ Phase' = "POLL_RAISED" => obs'.pollRaised]_vars

C9_SecondPollRaised ==
    /\ WfdDone
    /\ attempts > 0
    /\ cnt.polls = 2
    /\ Phase = "POLL_RAISED"

\* C10: a poll of waitForLastTransaction reports the transaction applied
\* exactly when the fetched history holds an external-in transaction whose
\* normalized message hash is the one derived from lastSendResult; what it
\* matched has that hash, whatever the logical times.
C10_AppliedIffNormalizedHashMatches ==
    pc = "wflt_decide" =>
        /\ inMessageHash = getNormalizedExtMessageHash(lastSendResult.msg)
        /\ result.isApplied <=>
              \E k \in DOMAIN lastTxs :
                 /\ lastTxs[k].inType = "external-in"
                 /\ getNormalizedExtMessageHash(lastTxs[k].msg) = inMessageHash
        /\ result.isApplied =>
              /\ result.transaction.inType = "external-in"
              /\ getNormalizedExtMessageHash(result.transaction.msg) = inMessageHash
              /\ \E k \in DOMAIN lastTxs : lastTxs[k] = result.transaction

C10_SkippedOtherHashAtSameLt ==
    /\ pc = "wflt_decide"
    /\ result.isApplied
    /\ Len(lastTxs) = 2
    /\ lastTxs[1].inType = "external-in"
    /\ getNormalizedExtMessageHash(lastTxs[1].msg) # inMessageHash
    /\ lastTxs[1].lt = lastTxs[2].lt
    /\ result.transaction = lastTxs[2]
    /\ result.transaction.msg # lastSendResult.msg

NotAppliedError == Threw("Transaction was not applied. Check your wallet transactions", <<>>)

\* waitForLastTransaction was called with arguments that let it start polling
WfltPolling ==
    /\ op = "waitForLastTransaction"
    /\ attempts > 0
    /\ senderAddress # "none"
    /\ lastSendResult.shape = "boc"

C12_NoAddressOrNoBocFailsBeforeAnyCall ==
    (op = "waitForLastTransaction" /\ attempts > 0) =>
        /\ senderAddress = "none" =>
              /\ pc = "done"
              /\ outcome = Threw("Sender must have an address", <<>>)
              /\ cnt.txPolls = 0 /\ cnt.prompts = 0 /\ cnt.sleepsPoll = 0
        /\ (senderAddress # "none" /\ lastSendResult.shape \in {"undefined", "no_boc", "boc_not_string"}) =>
              /\ pc = "done"
              /\ outcome = Threw("Not implemented", <<>>)
              /\ cnt.txPolls = 0 /\ cnt.prompts = 0 /\ cnt.sleepsPoll = 0

C12_BocOfWrongTypeNotImplemented ==
    /\ op = "waitForLastTransaction"
    /\ attempts > 0
    /\ senderAddress # "none"
    /\ obs.submitted
    /\ lastSendResult.shape = "boc_not_string"
    /\ outcome = Threw("Not implemented", <<>>)

MaxAttemptsError == Threw("Max attempts reached", <<>>)

\* C13: on the rate-limited transport the k-th sleep lasts 400 * 2^(k-1) ms,
\* and a call answered 429 three times and then 2xx returns on its 4th
\* request after sleeping 400 + 800 + 1600 = 2800 ms in total.
C13_DelaysDoubleFrom400 ==
    /\ \A k \in DOMAIN http.slept : http.slept[k] = 400 * 2^(k - 1)
    /\ (pc = "done" /\ outcome = Returned /\ http.requests = 4) =>
          /\ Len(http.slept) = 3
          /\ http.slept[1] + http.slept[2] + http.slept[3] = 2800
    /\ (httpAdapter /\ pc = "done" /\ http.attempts = 3 /\ http.r = "2xx") =>
          (outcome = Returned /\ http.requests = 4)

C13_ReturnedOnFourthRequest ==
    /\ httpAdapter
    /\ pc = "done"
    /\ outcome = Returned
    /\ http.attempts = 3
    /\ http.requests = 4
    /\ http.r = "2xx"
    /\ http.slept = <<400, 800, 1600>>

\* C14: a call through the rate-limited transport that is answered only with
\* 429 fails with the max-attempts error when exactly 4 requests have been
\* issued; no call ever issues a 5th request.
C14_GivesUpAfterFourRequests ==
    /\ http.requests <= 4
    /\ (pc = "done" /\ outcome = MaxAttemptsError) =>
          (http.requests = 4 /\ http.attempts = 4 /\ http.r = "429")
    /\ (httpAdapter /\ pc = "done" /\ http.r = "429") => outcome = MaxAttemptsError

C14_FailedOnOnly429 ==
    /\ httpAdapter
    /\ pc = "done"
    /\ outcome = MaxAttemptsError
    /\ http.requests = 4
    /\ http.r = "429"

\* C15: whatever backend the provider was built with, a call whose request is
\* answered with 429 or cannot connect is given up only after the retries of
\* the bounded backoff, that is after MAX_ATTEMPTS requests.
C15_EveryBackendRetries ==
    (pc = "done" /\ http.requests > 0 /\ http.r \in {"429", "no_connection"}) =>
        http.requests = MAX_ATTEMPTS

UnsupportedSendModeError ==
    Threw("Deployer sender does not support sendMode other than PAY_GAS_SEPARATELY", <<>>)

\* C16: after any sequence of send calls lastSendResult is the value the
\* signing provider returned from the most recent submission that completed
\* (undefined when none did); a submission that raises leaves it as it was.
C16_LastSendResultIsLastReturned ==
    /\ lastSendResult = obs.returned
    /\ (~obs.submitted /\ ~obs.unsupportedMode) => lastSendResult = NoSendResult

C16_RaisedAfterSuccessfulSend ==
    /\ pc = "done"
    /\ outcome = Threw("sendTransaction error", <<>>)
    /\ obs.submitted
    /\ lastSendResult.shape = "boc"
    /\ lastSendResult = obs.returned

\* C17: a send called with a mode other than undefined or PAY_GAS_SEPARATELY
\* raises the unsupported-send-mode error, nothing is submitted to the signing
\* provider and lastSendResult stays what the last completed submission
\* returned.
C17_UnsupportedModeRejectedUnsent ==
    obs.unsupportedMode =>
        /\ pc = "done"
        /\ outcome = UnsupportedSendModeError
        /\ ~obs.submitted
        /\ lastSendResult = obs.returned

C17_RejectedAfterSuccessfulSend ==
    /\ obs.unsupportedMode
    /\ outcome = UnsupportedSendModeError
    /\ lastSendResult.shape = "boc"

\* C19: when internal hands the message to the sender, init-data is attached
\* exactly when the wrapper holds init-data and the state it read for this
\* send is not 'active'.
C19_InitAttachedIffHeldAndNotActive ==
    internal.handed =>
        (internal.attached <=> (internal.init /\ internal.stateType # "active"))

C19_HeldButActiveNotAttached ==
    /\ pc = "int_send"
    /\ internal.handed
    /\ internal.init
    /\ internal.stateType = "active"
    /\ ~internal.attached

\* C20 as stated: every internal send has performed exactly one state read of
\* the target when the message is handed to the sender.
C20_OneStateReadPerInternalSend ==
    internal.handed => internal.reads = 1

\* C20 amended: when the message is handed to the sender, internal has
\* performed exactly one state read if the wrapper holds init-data and none
\* if it holds none.
C20_OneStateReadIffInitHeld ==
    internal.handed => internal.reads = (IF internal.init THEN 1 ELSE 0)

C20_SentWithoutStateRead ==
    /\ pc = "int_send"
    /\ internal.handed
    /\ ~internal.init
    /\ internal.reads = 0
    /\ obs.submitted

\* C18: a provider exists, and a send can be called or has been submitted,
\* only after connect() resolved; a connect() that fails ends the process
\* with exit code 1, no provider is returned and nothing is ever sent.
C18_NoProviderWithoutConnect ==
    /\ build.provider => build.connected
    /\ (pc = "idle" \/ obs.submitted \/ obs.unsupportedMode) => (build.provider /\ build.connected)
    /\ build.failed =>
          /\ pc = "exited"
          /\ build.exitCode = 1
          /\ ~build.provider
          /\ ~obs.submitted
          /\ lastSendResult = NoSendResult
    /\ build.exitCode = 1 => build.failed

C18_ExitedOnConnectFailure ==
    /\ pc = "exited"
    /\ build.failed
    /\ build.exitCode = 1
    /\ ~build.provider
    /\ tcKind # "none"

-----------------------------------------------------------------------------
\* C21: a build for a custom network whose descriptor (the flags when an
\* endpoint is given, else the object of the config) has version v4 and a key
\* ends with the configuration error, with no client constructed, no request
\* made, no sender chosen and no sender connected.
C21_V4KeyFailsBeforeAnyClient ==
    (obs.built.chosen = "custom" /\ obs.built.v4key) =>
        /\ pc = "done"
        /\ outcome = Threw("Cannot use a custom API key with a v4 API", <<>>)
        /\ obs.built.clients = 0
        /\ obs.built.requests = 0
        /\ ~obs.built.senderChosen
        /\ ~build.connected
        /\ ~build.provider

C21_V4KeyOfConfigObjectRejected ==
    /\ obs.built.chosen = "custom"
    /\ obs.built.v4key
    /\ obs.built.flag = "none"
    /\ obs.built.cfg = "object"
    /\ pc = "done"

\* C22: a build whose chosen network is mainnet or testnet and that was given
\* any of --custom-type, --custom-version, --custom-key ends with the
\* configuration error, with no client constructed and no sender chosen.
C22_CustomFlagsRejectedOffCustom ==
    (obs.built.chosen \in {"mainnet", "testnet"} /\ obs.built.customFlags) =>
        /\ pc = "done"
        /\ outcome = Threw("Cannot use custom parameters with a non-custom network", <<>>)
        /\ obs.built.clients = 0
        /\ ~obs.built.senderChosen
        /\ ~build.provider

C22_TestnetOfConfigWithCustomFlag ==
    /\ obs.built.chosen = "testnet"
    /\ obs.built.cfg = "testnet"
    /\ obs.built.flag = "none"
    /\ obs.built.customFlags
    /\ pc = "done"

\* C23: the network is the flag's when a flag is given, else the config's
\* when the config names one, else the prompt's answer; the prompt is shown
\* exactly when neither the flags nor the config give a network.
C23_FlagThenConfigThenPrompt ==
    obs.built.chosen # "none" =>
        /\ obs.built.flag # "none" => obs.built.chosen = obs.built.flag
        /\ (obs.built.flag = "none" /\ obs.built.cfg # "none") =>
               obs.built.chosen = (IF obs.built.cfg = "object" THEN "custom" ELSE obs.built.cfg)
        /\ obs.built.prompted <=> (obs.built.flag = "none" /\ obs.built.cfg = "none")

C23_FlagWinsOverConfig ==
    /\ obs.built.flag = "testnet"
    /\ obs.built.cfg = "mainnet"
    /\ obs.built.chosen = "testnet"
    /\ ~obs.built.prompted
    /\ pc = "build_sender"

\* C24 as stated: when the light-client configuration has a malformed peer
\* entry, the build ends with the invalid-configuration error and no peer
\* engine has been constructed.
C24_NoEngineOnMalformedPeer ==
    obs.built.malformedAt # 0 =>
        /\ pc = "done"
        /\ outcome = Threw("Invalid liteclient configuration", <<>>)
        /\ obs.built.engines = 0

-----------------------------------------------------------------------------
\* C25 as stated: a transaction-history request sent to the TonClient (v2)
\* backend, by the deployment verification or by the last-transaction
\* lookup, has the archival flag set.
C25_HistoryRequestsToV2AreArchival ==
    obs.histReq.client = "v2" => obs.histReq.archival

\* C26 as stated: a verification makes at most MAX_TONAPI_ATTEMPTS fetch
\* attempts and sleeps only when another attempt follows the sleep.
C26_SleepsOnlyBetweenAttempts ==
    /\ vAttempts <= MAX_TONAPI_ATTEMPTS
    /\ pc = "vts_sleep" => vAttempts + 1 < MAX_TONAPI_ATTEMPTS

\* C27 as stated: the error waitForDeploy ends with when the attempts ran
\* out names the number of attempts it was called with.
C27_TimeoutNamesAttempts ==
    (op = "waitForDeploy" /\ pc = "done" /\ outcome.kind = "threw"
     /\ outcome.msg = TimeoutError.msg) =>
        (Len(outcome.detail) >= 1 /\ outcome.detail[1] = attempts)

-----------------------------------------------------------------------------
\* C28 as stated: on an answer of the indexer that carries data,
\* verifyTransactionByHash reports failure exactly when the exit code is
\* defined and neither 0 nor 1, or the status is failed, or a success flag
\* is false; an answer with these fields absent is a success.
C28_FailedIffNamedField ==
    (op = "verifyTransactionByHash" /\ pc = "done" /\ obs.indexer.answer.kind = "data") =>
        (~specificTxStatus.success <=>
            \/ \E c \in obs.indexer.answer.exit_code : c # 0 /\ c # 1
            \/ obs.indexer.status = "failed"
            \/ obs.indexer.answer.compute_success = "false"
            \/ obs.indexer.answer.success = "false")

-----------------------------------------------------------------------------
\* C29 as stated: a deploy called with waitAttempts <= 0 never returns
\* normally after it has sent the message.
C29_NoSendWithoutWait ==
    ~(op = "deploy" /\ pc = "done" /\ obs.submitted /\ attempts <= 0 /\ outcome = Returned)

-----------------------------------------------------------------------------
\* C30: in waitForDeploy and waitForLastTransaction a request is issued only
\* when every earlier request has been answered and the sleep that follows
\* it has ended: at the head of either loop each poll made so far has its
\* completed sleep, inside an iteration exactly one poll is without its
\* sleep, the verification starts only after the one settling sleep, and the
\* verification and the cross-check are each made at most once.
C30_RequestsStrictlySequential ==
    /\ pc \in {"wfd_loop", "wfd_sleep"} => i = cnt.sleepsPoll + 1
    /\ pc = "wfd_loop" => cnt.polls = cnt.sleepsPoll
    /\ pc \in {"wfd_sleep", "wfd_settle"} => cnt.polls = cnt.sleepsPoll + 1
    /\ pc = "wfd_settle" => cnt.sleepsSettle = 0 /\ cnt.verifies = 0
    /\ pc \in {"vts_fetch", "vts_sleep", "wfd_check", "wfd_cross"} =>
           /\ cnt.polls = cnt.sleepsPoll + 1
           /\ cnt.sleepsSettle = 1
           /\ cnt.verifies = 1
           /\ cnt.cross = 0
    /\ cnt.verifies <= 1 /\ cnt.cross <= 1 /\ cnt.sleepsSettle <= 1
    /\ pc = "wflt_loop" => cnt.txPolls = cnt.sleepsPoll /\ i = cnt.sleepsPoll + 1
    /\ pc \in {"wflt_fetch", "wflt_decide", "wflt_sleep"} => cnt.txPolls = cnt.sleepsPoll + 1

C30_ThirdPollAfterTwoSleeps ==
    /\ op = "waitForDeploy"
    /\ pc = "wfd_sleep"
    /\ cnt.polls = 3
    /\ cnt.sleepsPoll = 2

-----------------------------------------------------------------------------
\* C34: a deploy of a contract that is already active, or of a contract
\* without init-data, ends with an error, the sender has not been asked to
\* send, and lastSendResult is what it was before the call.
C34_NoSendWhenActiveOrNoInit ==
    obs.deployCase \in {"active", "no_init"} =>
        /\ pc = "done"
        /\ outcome.kind = "threw"
        /\ outcome.msg = (IF obs.deployCase = "active" THEN "Contract is already deployed!"
                          ELSE "Contract has no init!")
        /\ ~obs.submitted
        /\ lastSendResult = NoSendResult

C34_NoInitRejectedUnsent ==
    /\ op = "deploy"
    /\ obs.deployCase = "no_init"
    /\ pc = "done"
    /\ ~obs.submitted

-----------------------------------------------------------------------------
\* C33 as stated: waitForLastTransaction returns with the message
\* "successfully applied" only when the matched transaction succeeded on
\* chain, not when it was aborted or ended with an exit code other than 0, 1.
C33_AppliedOnlyIfSucceeded ==
    (op = "waitForLastTransaction" /\ pc = "done" /\ outcome = Returned
     /\ InWrites("Transaction successfully applied!")) =>
        obs.matched = "succeeded"

-----------------------------------------------------------------------------
\* the configuration errors of build()
BuildConfigErrors ==
    {"Cannot use custom parameters with a non-custom network",
     "Cannot use a custom API key with a v4 API",
     "Unknown API version",
     "Unknown network type",
     "The usage of this network provider requires either mainnet or testnet",
     "Tonkeeper cannot work with custom network.",
     "Mnemonic deployer was chosen, but env variables WALLET_MNEMONIC and WALLET_VERSION are not set"}

\* C35 as stated: when build() ends with a configuration error, no network
\* request has been made.
C35_ConfigErrorsBeforeAnyRequest ==
    (pc = "done" /\ outcome.kind = "threw" /\ outcome.msg \in BuildConfigErrors) =>
        obs.built.requests = 0

\* C36 as stated: a build with allowCustom = false never yields a provider
\* whose network is custom.
C36_NoCustomProviderWhenDisallowed ==
    (build.provider /\ obs.built.chosen # "none" /\ ~obs.built.allowCustom) =>
        network # "custom"

\* the provider was built in the custom branch of build(): only the branch
\* of mainnet and testnet installs httpAdapter
BuiltOnCustomEndpoint == ~httpAdapter

\* C37 as stated: a provider built on a custom endpoint makes no request to
\* the public indexer during waitForDeploy.
C37_CustomEndpointNeverAsksTonApi ==
    BuiltOnCustomEndpoint => cnt.cross = 0

-----------------------------------------------------------------------------
\* C38 as stated: when waitForDeploy or waitForLastTransaction has polled at
\* least once and ends by returning, by a timeout or by a transaction-failed
\* error, the action prompt is clear.
C38_PromptClearedOnTermination ==
    (/\ op \in {"waitForDeploy", "waitForLastTransaction"}
     /\ pc = "done"
     /\ cnt.polls + cnt.txPolls >= 1
     /\ \/ outcome = Returned
        \/ outcome.kind = "threw" /\ outcome.msg \in {TimeoutError.msg, NotAppliedError.msg,
                                                       "Transaction failed"}) =>
        prompt = ""

\* C39: for a command whose hooks main runs, a pre-hook script that fails
\* ends the process with exit code 1 and the runner is never invoked; the
\* post-hook is looked up only after the runner returned without raising;
\* and a post-hook script that fails leaves a warning and exit code 0.
C39_HooksAroundRunner ==
    cli.site = "main" =>
        /\ (cli.preHook = "fails" =>
                /\ ~cli.invoked
                /\ (pc = "exited" => cli.exitCode = 1))
        /\ (cli.postHook # "unread" => cli.body = "returns")
        /\ (cli.postHook = "fails" /\ pc = "exited" =>
                cli.warned /\ cli.exitCode = 0)

\* a command whose post-hook failed after its runner returned
C39_PostHookFailedAfterRunner ==
    /\ cli.site = "main"
    /\ HooksInMain(cli.command)
    /\ cli.invoked
    /\ cli.postHook = "fails"
    /\ "post" \in cli.executed
    /\ cli.warned
    /\ cli.exitCode = 0

\* C31 as stated, for a signal that arrives once the command has started: a
\* process the operator interrupted exits with code 130, at whatever point of
\* the run the signal arrived.
C31_InterruptExits130 ==
    (pc = "exited" /\ cli.interrupted \notin {"none", "main"}) => cli.exitCode = 130

\* C32 as stated: a command executed through `blueprint action` executes no
\* pre- or post-hook script.
C32_ActionExecutesNoHook == cli.viaAction => cli.executed = {}

====
